---- MODULE Spec2Model ----
(***************************************************************************)
(* Model of the algorithm engines of proyecto-algoritmos-avanzados:        *)
(* UnionFind and kruskal (src/src/kruskal.py), prim (src/src/prim.py),     *)
(* dijkstra and reconstruir_ruta (src/src/dijkstra.py),                    *)
(* construir_arbol_huffman and generar_codigos (src/src/huffman.py).       *)
(*                                                                         *)
(* Node labels are integers (Python compares the string labels; only the   *)
(* total order matters).  An edge (nodo1, nodo2, peso) is a 3-tuple.       *)
(* Every engine invocation has a frame (a record of its local variables    *)
(* and its position pc); one action is one call, one loop iteration or one *)
(* return.                                                                 *)
(***************************************************************************)
EXTENDS Integers, Sequences, FiniteSets, Bags, TLC

\* ---------------------------------------------------------------- bounds
\* longest edge list, most distinct pairs passed to unir, largest frequency
\* table and largest frequency that are explored
MaxAristas == 3
MaxUnir == 3
MaxSimbolos == 5
MaxFrecuencia == 5
\* longest edge list and largest frequency table when all engines are run
\* one after the other
MaxAristasTodos == 1
MaxSimbolosTodos == 2

\* ------------------------------------------------------ program constants
\* None: the default of prim's nodo_inicial, and a NodoHuffman without
\* caracter or child.
Ninguno == 0
\* float('inf')
Inf == -1

\* the node labels and the weights of the explored graphs, and the elements
\* of the explored UnionFind
Nodos == 1..3
Pesos == 0..1
Elementos == 1..5
\* the frequencies of the tables when all engines are run
FrecuenciasTodos == 1..2

\* the edges an explored edge list is made of
Arista == Nodos \X Nodos \X Pesos

VARIABLES
    aristas,       \* the edge list handed to prim, kruskal and dijkstra
    nodo_inicial,  \* prim's nodo_inicial argument (Ninguno when omitted)
    pr,            \* frame of prim
    kr,            \* frame of kruskal
    padre,         \* UnionFind.padre
    rango,         \* UnionFind.rango
    ret,           \* the value returned by the last UnionFind call
    unidos,        \* history: the pairs passed to unir so far
    nodo_origen,   \* dijkstra's nodo_origen argument
    dj,            \* frame of dijkstra
    ruta,          \* frame of reconstruir_ruta
    frecuencias,   \* the frequency table, in iteration order
    hf,            \* frame of construir_arbol_huffman (with the node arena)
    codigos        \* frame of generar_codigos

varsMST == <<aristas, nodo_inicial, pr, kr>>
varsUF == <<padre, rango, ret, unidos>>
varsDijkstra == <<nodo_origen, dj, ruta>>
varsHuffman == <<frecuencias, hf, codigos>>
vars == <<varsMST, varsUF, varsDijkstra, varsHuffman>>

\* ------------------------------------------------------------- utilities
SeqsUpTo(S, n) == UNION {[1..k -> S] : k \in 0..n}

RECURSIVE SumaSeq(_)
SumaSeq(s) == IF s = <<>> THEN 0 ELSE Head(s) + SumaSeq(Tail(s))

\* Python's order on tuples of equal length: lexicographic.
TuplaMenor(a, b) ==
    \E i \in 1..Len(a) : a[i] < b[i] /\ \A j \in 1..(i - 1) : a[j] = b[j]

\* heapq over tuples.  Python's tuple order is total and equal tuples are
\* indistinguishable, so a heap of tuples is the bag of its items and
\* heappop returns the least of them.
HeapVacio == EmptyBag

HeapPush(heap, item) == heap (+) SetToBag({item})

HeapMin(heap) ==
    CHOOSE m \in BagToSet(heap) : \A x \in BagToSet(heap) : ~TuplaMenor(x, m)

HeapPop(heap) == heap (-) SetToBag({HeapMin(heap)})

HeapNoVacio(heap) == BagToSet(heap) # {}

\* ------------------------------------------------- adjacency construction
\* grafo: a dict node -> list of (vecino, peso); claves is its key order.
GrafoVacio == [claves |-> <<>>, ady |-> <<>>]

EnGrafo(grafo, n) == n \in DOMAIN grafo.ady

AgregarClave(grafo, n) ==
    IF EnGrafo(grafo, n) THEN grafo
    ELSE [claves |-> Append(grafo.claves, n),
          ady |-> [k \in DOMAIN grafo.ady \cup {n} |->
                      IF k = n THEN <<>> ELSE grafo.ady[k]]]

AgregarArista(grafo, a) ==
    LET g1 == AgregarClave(grafo, a[1])
        g2 == AgregarClave(g1, a[2])
        g3 == [g2 EXCEPT !.ady[a[1]] = Append(@, <<a[2], a[3]>>)]
    IN [g3 EXCEPT !.ady[a[2]] = Append(@, <<a[1], a[3]>>)]

RECURSIVE ConstruirGrafoDesde(_, _)
ConstruirGrafoDesde(grafo, as) ==
    IF as = <<>> THEN grafo
    ELSE ConstruirGrafoDesde(AgregarArista(grafo, Head(as)), Tail(as))

ConstruirGrafo(as) == ConstruirGrafoDesde(GrafoVacio, as)

\* ------------------------------------------------------------------ prim
PrimInactivo ==
    [pc |-> "inicio", grafo |-> GrafoVacio, visitados |-> {},
     mst_aristas |-> <<>>, peso_total |-> 0, heap |-> HeapVacio]

\* for vecino, peso in lista: heappush(heap, (peso, desde, vecino)),
\* for the neighbours that are not in excluidos.
RECURSIVE EmpujarCandidatas(_, _, _, _)
EmpujarCandidatas(heap, desde, lista, excluidos) ==
    IF lista = <<>> THEN heap
    ELSE LET v == Head(lista)
             h == IF v[1] \in excluidos THEN heap
                  ELSE HeapPush(heap, <<v[2], desde, v[1]>>)
         IN EmpujarCandidatas(h, desde, Tail(lista), excluidos)

\* prim up to the loop: the empty-input return, the adjacency list, the
\* default start node, the seeding of the heap.  grafo[nodo_inicial] raises
\* KeyError when the start node is no key of grafo.
PrimEntrada(as, inicial) ==
    IF as = <<>>
    THEN [PrimInactivo EXCEPT !.pc = "retorno"]
    ELSE LET grafo == ConstruirGrafo(as)
             ini == IF inicial = Ninguno THEN grafo.claves[1] ELSE inicial
         IN IF ~EnGrafo(grafo, ini)
            THEN [PrimInactivo EXCEPT !.pc = "KeyError", !.grafo = grafo,
                                      !.visitados = {ini}]
            ELSE [pc |-> "bucle", grafo |-> grafo, visitados |-> {ini},
                  mst_aristas |-> <<>>, peso_total |-> 0,
                  heap |-> EmpujarCandidatas(HeapVacio, ini, grafo.ady[ini], {})]

\* while heap and len(visitados) < len(grafo)
PrimCondicion(f) ==
    HeapNoVacio(f.heap) /\ Cardinality(f.visitados) < Len(f.grafo.claves)

\* prim's loop body without the "if nodo2 in visitados: continue"
PrimPasoSinDescarte(f) ==
    LET e == HeapMin(f.heap)
        vis == f.visitados \cup {e[3]}
    IN [f EXCEPT !.visitados = vis,
                 !.mst_aristas = Append(@, <<e[2], e[3], e[1]>>),
                 !.peso_total = @ + e[1],
                 !.heap = EmpujarCandidatas(HeapPop(f.heap), e[3],
                                            f.grafo.ady[e[3]], vis)]

\* one iteration of prim's loop
PrimPaso(f) ==
    LET e == HeapMin(f.heap)
        peso == e[1]
        nodo1 == e[2]
        nodo2 == e[3]
        h == HeapPop(f.heap)
    IN IF nodo2 \in f.visitados
       THEN [f EXCEPT !.heap = h]
       ELSE LET vis == f.visitados \cup {nodo2}
            IN [f EXCEPT !.visitados = vis,
                         !.mst_aristas = Append(@, <<nodo1, nodo2, peso>>),
                         !.peso_total = @ + peso,
                         !.heap = EmpujarCandidatas(h, nodo2,
                                                    f.grafo.ady[nodo2], vis)]

PrimLlamar ==
    /\ pr.pc = "inicio"
    /\ pr' = PrimEntrada(aristas, nodo_inicial)
    /\ UNCHANGED <<aristas, nodo_inicial, kr, varsUF, varsDijkstra, varsHuffman>>

PrimIterar ==
    /\ pr.pc = "bucle"
    /\ PrimCondicion(pr)
    /\ pr' = PrimPaso(pr)
    /\ UNCHANGED <<aristas, nodo_inicial, kr, varsUF, varsDijkstra, varsHuffman>>

PrimRetornar ==
    /\ pr.pc = "bucle"
    /\ ~PrimCondicion(pr)
    /\ pr' = [pr EXCEPT !.pc = "retorno"]
    /\ UNCHANGED <<aristas, nodo_inicial, kr, varsUF, varsDijkstra, varsHuffman>>

PrimTerminado == pr.pc \in {"retorno", "KeyError"}

\* ------------------------------------------------------------- UnionFind
\* UnionFind.__init__
UFPadreInicial(nodos) == [n \in nodos |-> n]

UFRangoInicial(nodos) == [n \in nodos |-> 0]

\* encontrar without "self.padre[nodo] = ...": the root is found and no
\* path is compressed
RECURSIVE EncontrarSinComprimir(_, _)
EncontrarSinComprimir(p, nodo) ==
    IF p[nodo] # nodo
    THEN EncontrarSinComprimir(p, p[nodo])
    ELSE [padre |-> p, raiz |-> p[nodo]]

\* UnionFind.encontrar: the representative, and padre after the path
\* compression the call performs.
RECURSIVE Encontrar(_, _)
Encontrar(p, nodo) ==
    IF p[nodo] # nodo
    THEN LET r == Encontrar(p, p[nodo])
             p2 == [r.padre EXCEPT ![nodo] = r.raiz]
         IN [padre |-> p2, raiz |-> p2[nodo]]
    ELSE [padre |-> p, raiz |-> p[nodo]]

\* unir attaching nodo2 itself, not its root, under the root of nodo1
UnirSinRaiz2(p, rg, nodo1, nodo2) ==
    LET e1 == Encontrar(p, nodo1)
        e2 == Encontrar(e1.padre, nodo2)
    IN IF e1.raiz = e2.raiz
       THEN [padre |-> e2.padre, rango |-> rg, ret |-> FALSE]
       ELSE [padre |-> [e2.padre EXCEPT ![nodo2] = e1.raiz],
             rango |-> [rg EXCEPT ![e1.raiz] = @ + 1], ret |-> TRUE]

\* unir without the "if raiz1 == raiz2: return False"
UnirSinComprobar(p, rg, nodo1, nodo2) ==
    LET e1 == Encontrar(p, nodo1)
        e2 == Encontrar(e1.padre, nodo2)
        raiz1 == e1.raiz
        raiz2 == e2.raiz
        p2 == e2.padre
    IN IF rg[raiz1] < rg[raiz2]
       THEN [padre |-> [p2 EXCEPT ![raiz1] = raiz2], rango |-> rg, ret |-> TRUE]
       ELSE IF rg[raiz1] > rg[raiz2]
       THEN [padre |-> [p2 EXCEPT ![raiz2] = raiz1], rango |-> rg, ret |-> TRUE]
       ELSE [padre |-> [p2 EXCEPT ![raiz2] = raiz1],
             rango |-> [rg EXCEPT ![raiz1] = @ + 1], ret |-> TRUE]

\* UnionFind.unir: padre and rango after the call, and its return value.
Unir(p, rg, nodo1, nodo2) ==
    LET e1 == Encontrar(p, nodo1)
        e2 == Encontrar(e1.padre, nodo2)
        raiz1 == e1.raiz
        raiz2 == e2.raiz
        p2 == e2.padre
    IN IF raiz1 = raiz2
       THEN [padre |-> p2, rango |-> rg, ret |-> FALSE]
       ELSE IF rg[raiz1] < rg[raiz2]
       THEN [padre |-> [p2 EXCEPT ![raiz1] = raiz2], rango |-> rg, ret |-> TRUE]
       ELSE IF rg[raiz1] > rg[raiz2]
       THEN [padre |-> [p2 EXCEPT ![raiz2] = raiz1], rango |-> rg, ret |-> TRUE]
       ELSE [padre |-> [p2 EXCEPT ![raiz2] = raiz1],
             rango |-> [rg EXCEPT ![raiz1] = @ + 1], ret |-> TRUE]

\* The record kept of the last UnionFind call: the operation, its
\* arguments, the value it returned, and padre and rango as they were when
\* it was called.
SinLlamada ==
    [op |-> "ninguna", x |-> Ninguno, y |-> Ninguno, val |-> FALSE,
     padre_antes |-> <<>>, rango_antes |-> <<>>]

LlamadaUnir(p, rg, x, y, val) ==
    [op |-> "unir", x |-> x, y |-> y, val |-> val,
     padre_antes |-> p, rango_antes |-> rg]

LlamadaEncontrar(p, rg, x, val) ==
    [op |-> "encontrar", x |-> x, y |-> Ninguno, val |-> val,
     padre_antes |-> p, rango_antes |-> rg]

\* a caller invokes uf.unir(x, y)
UFUnir(x, y) ==
    /\ Cardinality(unidos \cup {<<x, y>>}) <= MaxUnir
    /\ LET u == Unir(padre, rango, x, y)
       IN /\ padre' = u.padre
          /\ rango' = u.rango
          /\ ret' = LlamadaUnir(padre, rango, x, y, u.ret)
    /\ unidos' = unidos \cup {<<x, y>>}
    /\ UNCHANGED <<varsMST, varsDijkstra, varsHuffman>>

\* a caller invokes uf.encontrar(x)
UFEncontrar(x) ==
    /\ LET e == Encontrar(padre, x)
       IN /\ padre' = e.padre
          /\ ret' = LlamadaEncontrar(padre, rango, x, e.raiz)
    /\ UNCHANGED <<rango, unidos, varsMST, varsDijkstra, varsHuffman>>

\* --------------------------------------------------------------- kruskal
KruskalInactivo ==
    [pc |-> "inicio", nodos |-> {}, aristas_ordenadas |-> <<>>, i |-> 1,
     mst_aristas |-> <<>>, peso_total |-> 0]

\* an insertion that puts an edge before the edges of its own weight: the
\* sort is no longer stable
RECURSIVE InsertarOrdenadaInestable(_, _)
InsertarOrdenadaInestable(s, a) ==
    IF s = <<>> THEN <<a>>
    ELSE IF a[3] <= Head(s)[3] THEN <<a>> \o s
    ELSE <<Head(s)>> \o InsertarOrdenadaInestable(Tail(s), a)

\* sorted(aristas, key=lambda x: x[2]): a stable sort by weight.
RECURSIVE InsertarOrdenada(_, _)
InsertarOrdenada(s, a) ==
    IF s = <<>> THEN <<a>>
    ELSE IF a[3] < Head(s)[3] THEN <<a>> \o s
    ELSE <<Head(s)>> \o InsertarOrdenada(Tail(s), a)

\* the edges left in input order
SinOrdenar(as) == as

RECURSIVE OrdenarPorPeso(_)
OrdenarPorPeso(as) ==
    IF as = <<>> THEN <<>>
    ELSE InsertarOrdenada(OrdenarPorPeso(SubSeq(as, 1, Len(as) - 1)), as[Len(as)])

NodosDe(as) == {as[i][1] : i \in DOMAIN as} \cup {as[i][2] : i \in DOMAIN as}

\* kruskal up to the loop without the "if not aristas: return [], 0"
KruskalEntradaSinVacio(as) ==
    [pc |-> "bucle", nodos |-> NodosDe(as),
     aristas_ordenadas |-> OrdenarPorPeso(as), i |-> 1,
     mst_aristas |-> <<>>, peso_total |-> 0]

\* kruskal up to the loop
KruskalEntrada(as) ==
    IF as = <<>>
    THEN [KruskalInactivo EXCEPT !.pc = "retorno"]
    ELSE [pc |-> "bucle", nodos |-> NodosDe(as),
          aristas_ordenadas |-> OrdenarPorPeso(as), i |-> 1,
          mst_aristas |-> <<>>, peso_total |-> 0]

KruskalLlamar ==
    /\ PrimTerminado
    /\ kr.pc = "inicio"
    /\ LET f == KruskalEntrada(aristas)
       IN /\ kr' = f
          \* uf = UnionFind(list(nodos))
          /\ padre' = IF f.pc = "retorno" THEN padre ELSE UFPadreInicial(f.nodos)
          /\ rango' = IF f.pc = "retorno" THEN rango ELSE UFRangoInicial(f.nodos)
    /\ UNCHANGED <<aristas, nodo_inicial, pr, ret, unidos,
                   varsDijkstra, varsHuffman>>

\* The body of the for loop for the edge at position i, given what
\* uf.unir returned for it: an accepted edge is appended and counted, and
\* the loop is left once V - 1 edges are accepted.
KruskalPasoSinComprobar(f, unido) ==
    LET a == f.aristas_ordenadas[f.i]
        mst == Append(f.mst_aristas, a)
    IN [f EXCEPT !.mst_aristas = mst,
                 !.peso_total = @ + a[3],
                 !.i = @ + 1,
                 !.pc = IF Len(mst) = Cardinality(f.nodos) - 1
                        THEN "retorno" ELSE "bucle"]

KruskalPaso(f, unido) ==
    LET a == f.aristas_ordenadas[f.i]
        mst == Append(f.mst_aristas, a)
    IN IF unido
       THEN [f EXCEPT !.mst_aristas = mst,
                      !.peso_total = @ + a[3],
                      !.i = @ + 1,
                      !.pc = IF Len(mst) = Cardinality(f.nodos) - 1
                             THEN "retorno" ELSE "bucle"]
       ELSE [f EXCEPT !.i = @ + 1]

\* one iteration of the for loop over aristas_ordenadas
KruskalIterar ==
    /\ kr.pc = "bucle"
    /\ kr.i <= Len(kr.aristas_ordenadas)
    /\ LET a == kr.aristas_ordenadas[kr.i]
           u == Unir(padre, rango, a[1], a[2])
       IN /\ padre' = u.padre
          /\ rango' = u.rango
          /\ ret' = LlamadaUnir(padre, rango, a[1], a[2], u.ret)
          /\ kr' = KruskalPaso(kr, u.ret)
    /\ UNCHANGED <<aristas, nodo_inicial, pr, unidos, varsDijkstra, varsHuffman>>

KruskalRetornar ==
    /\ kr.pc = "bucle"
    /\ kr.i > Len(kr.aristas_ordenadas)
    /\ kr' = [kr EXCEPT !.pc = "retorno"]
    /\ UNCHANGED <<aristas, nodo_inicial, pr, varsUF, varsDijkstra, varsHuffman>>

\* ---------------------------------------------------- idle frames (other)
\* empujes is history: the number of heappush calls made so far
DijkstraInactivo ==
    [pc |-> "inicio", grafo |-> GrafoVacio, distancias |-> <<>>,
     predecesores |-> <<>>, visitados |-> {}, heap |-> HeapVacio,
     empujes |-> 0]

RutaInactiva == [pc |-> "inicio", destino |-> Ninguno, ruta |-> <<>>]

HuffmanInactivo ==
    [pc |-> "inicio", nodos |-> <<>>, heap |-> <<>>, raiz |-> Ninguno]

CodigosInactivo == [pc |-> "inicio", codigos |-> <<>>]

\* ------------------------------------------------- the MST specification
InitMST ==
    /\ aristas \in SeqsUpTo(Arista, MaxAristas)
    /\ nodo_inicial \in Nodos \cup {Ninguno}
    /\ pr = PrimInactivo
    /\ kr = KruskalInactivo
    /\ padre = <<>>
    /\ rango = <<>>
    /\ ret = SinLlamada
    /\ unidos = {}
    /\ nodo_origen = Ninguno
    /\ dj = DijkstraInactivo
    /\ ruta = RutaInactiva
    /\ frecuencias = <<>>
    /\ hf = HuffmanInactivo
    /\ codigos = CodigosInactivo

NextMST ==
    \/ PrimLlamar
    \/ PrimIterar
    \/ PrimRetornar
    \/ KruskalLlamar
    \/ KruskalIterar
    \/ KruskalRetornar

SpecMST == InitMST /\ [][NextMST]_vars

\* ------------------------------------------- the UnionFind specification
\* uf = UnionFind(list(Elementos)), then any calls of unir and encontrar.
InitUF ==
    /\ padre = UFPadreInicial(Elementos)
    /\ rango = UFRangoInicial(Elementos)
    /\ ret = SinLlamada
    /\ unidos = {}
    /\ aristas = <<>>
    /\ nodo_inicial = Ninguno
    /\ pr = PrimInactivo
    /\ kr = KruskalInactivo
    /\ nodo_origen = Ninguno
    /\ dj = DijkstraInactivo
    /\ ruta = RutaInactiva
    /\ frecuencias = <<>>
    /\ hf = HuffmanInactivo
    /\ codigos = CodigosInactivo

NextUF ==
    \/ \E x, y \in Elementos : UFUnir(x, y)
    \/ \E x \in Elementos : UFEncontrar(x)

SpecUF == InitUF /\ [][NextUF]_vars

\* -------------------------------------------------------------- dijkstra
\* nueva_distancia < distancias[vecino], where the recorded distance may be
\* float('inf') and the new one never is
MenorQueRegistrada(nueva, registrada) == registrada = Inf \/ nueva < registrada

\* predecesores[vecino] = nodo on a dict
Asignar(dict, clave, valor) ==
    [k \in DOMAIN dict \cup {clave} |-> IF k = clave THEN valor ELSE dict[k]]

\* dijkstra up to the loop without the check that nodo_origen is a key of
\* grafo
DijkstraEntradaSinVerificar(as, origen) ==
    LET grafo == ConstruirGrafo(as)
    IN [pc |-> "bucle", grafo |-> grafo,
        distancias |-> Asignar([n \in DOMAIN grafo.ady |-> Inf], origen, 0),
        predecesores |-> <<>>, visitados |-> {},
        heap |-> HeapPush(HeapVacio, <<0, origen>>), empujes |-> 1]

\* dijkstra up to the loop: the adjacency list, the check of nodo_origen
\* (return {}, {}), the initial distances and heap.
DijkstraEntrada(as, origen) ==
    LET grafo == ConstruirGrafo(as)
    IN IF ~EnGrafo(grafo, origen)
       THEN [pc |-> "retorno", grafo |-> grafo, distancias |-> <<>>,
             predecesores |-> <<>>, visitados |-> {}, heap |-> HeapVacio,
             empujes |-> 0]
       ELSE [pc |-> "bucle", grafo |-> grafo,
             distancias |-> [n \in DOMAIN grafo.ady |->
                                IF n = origen THEN 0 ELSE Inf],
             predecesores |-> <<>>, visitados |-> {},
             heap |-> HeapPush(HeapVacio, <<0, origen>>), empujes |-> 1]

\* the relaxation of one neighbour without "predecesores[vecino] =
\* nodo_actual"
RelajarVecinoSinPredecesor(f, nodo_actual, distancia_actual, v) ==
    LET vecino == v[1]
        nueva_distancia == distancia_actual + v[2]
    IN IF vecino \in f.visitados THEN f
       ELSE IF MenorQueRegistrada(nueva_distancia, f.distancias[vecino])
       THEN [f EXCEPT !.distancias[vecino] = nueva_distancia,
                      !.heap = HeapPush(@, <<nueva_distancia, vecino>>),
                      !.empujes = @ + 1]
       ELSE f

\* the relaxation of one neighbour, without the "<" test: the neighbour
\* always takes the new distance
RelajarVecinoSiempre(f, nodo_actual, distancia_actual, v) ==
    LET vecino == v[1]
        nueva_distancia == distancia_actual + v[2]
    IN IF vecino \in f.visitados THEN f
       ELSE [f EXCEPT !.distancias[vecino] = nueva_distancia,
                      !.predecesores = Asignar(@, vecino, nodo_actual),
                      !.heap = HeapPush(@, <<nueva_distancia, vecino>>),
                      !.empujes = @ + 1]

\* the body of "for vecino, peso in grafo[nodo_actual]" for one neighbour
RelajarVecino(f, nodo_actual, distancia_actual, v) ==
    LET vecino == v[1]
        nueva_distancia == distancia_actual + v[2]
    IN IF vecino \in f.visitados THEN f
       ELSE IF MenorQueRegistrada(nueva_distancia, f.distancias[vecino])
       THEN [f EXCEPT !.distancias[vecino] = nueva_distancia,
                      !.predecesores = Asignar(@, vecino, nodo_actual),
                      !.heap = HeapPush(@, <<nueva_distancia, vecino>>),
                      !.empujes = @ + 1]
       ELSE f

RECURSIVE RelajarVecinos(_, _, _, _)
RelajarVecinos(f, nodo_actual, distancia_actual, lista) ==
    IF lista = <<>> THEN f
    ELSE RelajarVecinos(RelajarVecino(f, nodo_actual, distancia_actual, Head(lista)),
                        nodo_actual, distancia_actual, Tail(lista))

\* one iteration of "while heap"
DijkstraPaso(f) ==
    LET e == HeapMin(f.heap)
        distancia_actual == e[1]
        nodo_actual == e[2]
        f1 == [f EXCEPT !.heap = HeapPop(f.heap)]
    IN IF nodo_actual \in f.visitados THEN f1
       ELSE RelajarVecinos([f1 EXCEPT !.visitados = @ \cup {nodo_actual}],
                           nodo_actual, distancia_actual,
                           f.grafo.ady[nodo_actual])

DijkstraLlamar ==
    /\ dj.pc = "inicio"
    /\ dj' = DijkstraEntrada(aristas, nodo_origen)
    /\ UNCHANGED <<varsMST, varsUF, nodo_origen, ruta, varsHuffman>>

DijkstraIterar ==
    /\ dj.pc = "bucle"
    /\ HeapNoVacio(dj.heap)
    /\ dj' = DijkstraPaso(dj)
    /\ UNCHANGED <<varsMST, varsUF, nodo_origen, ruta, varsHuffman>>

DijkstraRetornar ==
    /\ dj.pc = "bucle"
    /\ ~HeapNoVacio(dj.heap)
    /\ dj' = [dj EXCEPT !.pc = "retorno"]
    /\ UNCHANGED <<varsMST, varsUF, nodo_origen, ruta, varsHuffman>>

\* ------------------------------------------------------ reconstruir_ruta
\* the while loop without the final ruta.reverse()
RECURSIVE RutaSinInvertir(_, _, _, _)
RutaSinInvertir(predecesores, nodo_origen_, nodo_actual, acumulada) ==
    IF nodo_actual = nodo_origen_
    THEN Append(acumulada, nodo_origen_)
    ELSE IF nodo_actual \notin DOMAIN predecesores
    THEN <<>>
    ELSE RutaSinInvertir(predecesores, nodo_origen_, predecesores[nodo_actual],
                         Append(acumulada, nodo_actual))

\* the while loop and the reverse: ruta collects the nodes from nodo_actual
\* back to nodo_origen; a node without predecessor ends it with [].
RECURSIVE RutaHaciaAtras(_, _, _, _)
RutaHaciaAtras(predecesores, nodo_origen_, nodo_actual, acumulada) ==
    IF nodo_actual = nodo_origen_
    THEN <<nodo_origen_>> \o acumulada
    ELSE IF nodo_actual \notin DOMAIN predecesores
    THEN <<>>
    ELSE RutaHaciaAtras(predecesores, nodo_origen_, predecesores[nodo_actual],
                        <<nodo_actual>> \o acumulada)

\* reconstruir_ruta(predecesores, nodo_origen, nodo_destino)
ReconstruirRutaOp(predecesores, nodo_origen_, nodo_destino) ==
    IF nodo_destino \notin DOMAIN predecesores /\ nodo_destino # nodo_origen_
    THEN <<>>
    ELSE RutaHaciaAtras(predecesores, nodo_origen_, nodo_destino, <<>>)

\* reconstruir_ruta is called with the predecessors dijkstra returned and
\* the same source
ReconstruirRuta(destino) ==
    /\ dj.pc = "retorno"
    /\ ruta.pc = "inicio"
    /\ ruta' = [pc |-> "retorno", destino |-> destino,
                ruta |-> ReconstruirRutaOp(dj.predecesores, nodo_origen, destino)]
    /\ UNCHANGED <<varsMST, varsUF, nodo_origen, dj, varsHuffman>>

\* -------------------------------------------- the dijkstra specification
InitDijkstra ==
    /\ aristas \in SeqsUpTo(Arista, MaxAristas)
    /\ nodo_origen \in Nodos
    /\ dj = DijkstraInactivo
    /\ ruta = RutaInactiva
    /\ nodo_inicial = Ninguno
    /\ pr = PrimInactivo
    /\ kr = KruskalInactivo
    /\ padre = <<>>
    /\ rango = <<>>
    /\ ret = SinLlamada
    /\ unidos = {}
    /\ frecuencias = <<>>
    /\ hf = HuffmanInactivo
    /\ codigos = CodigosInactivo

NextDijkstra ==
    \/ DijkstraLlamar
    \/ DijkstraIterar
    \/ DijkstraRetornar
    \/ \E destino \in Nodos : ReconstruirRuta(destino)

SpecDijkstra == InitDijkstra /\ [][NextDijkstra]_vars

\* --------------------------------------------------------------- huffman
\* NodoHuffman objects live in the arena hf.nodos and are referred to by
\* their position in it (Ninguno: no node); the heap is the Python list
\* heapq works on, holding such references.  Positions in a heap count
\* from 0, as in heapq.
NodoHuffman(caracter, frecuencia, izquierdo, derecho) ==
    [caracter |-> caracter, frecuencia |-> frecuencia,
     izquierdo |-> izquierdo, derecho |-> derecho]

\* NodoHuffman.es_hoja
EsHoja(nodos, n) ==
    nodos[n].izquierdo = Ninguno /\ nodos[n].derecho = Ninguno

\* the comparison the wrong way round
NodoMayor(nodos, a, b) == nodos[a].frecuencia > nodos[b].frecuencia

\* NodoHuffman.__lt__
NodoMenor(nodos, a, b) == nodos[a].frecuencia < nodos[b].frecuencia

En(heap, pos) == heap[pos + 1]

Poner(heap, pos, item) == [heap EXCEPT ![pos + 1] = item]

\* heapq._siftdown: newitem moves up from pos while it is less than its
\* parent
RECURSIVE SiftDownBucle(_, _, _, _, _)
SiftDownBucle(nodos, heap, startpos, pos, newitem) ==
    IF pos > startpos
    THEN LET parentpos == (pos - 1) \div 2
             parent == En(heap, parentpos)
         IN IF NodoMenor(nodos, newitem, parent)
            THEN SiftDownBucle(nodos, Poner(heap, pos, parent), startpos,
                               parentpos, newitem)
            ELSE Poner(heap, pos, newitem)
    ELSE Poner(heap, pos, newitem)

SiftDown(nodos, heap, startpos, pos) ==
    SiftDownBucle(nodos, heap, startpos, pos, En(heap, pos))

\* heapq._siftup: the smaller child is bubbled up until a leaf is reached,
\* then newitem is sifted down into place
RECURSIVE SiftUpBucle(_, _, _, _, _, _)
SiftUpBucle(nodos, heap, startpos, pos, childpos, newitem) ==
    IF childpos < Len(heap)
    THEN LET rightpos == childpos + 1
             c == IF rightpos < Len(heap)
                     /\ ~NodoMenor(nodos, En(heap, childpos), En(heap, rightpos))
                  THEN rightpos ELSE childpos
         IN SiftUpBucle(nodos, Poner(heap, pos, En(heap, c)), startpos, c,
                        2 * c + 1, newitem)
    ELSE SiftDown(nodos, Poner(heap, pos, newitem), startpos, pos)

SiftUp(nodos, heap, pos) ==
    SiftUpBucle(nodos, heap, pos, pos, 2 * pos + 1, En(heap, pos))

\* heapq.heapify: for i in reversed(range(n // 2)): _siftup(x, i)
RECURSIVE HeapifyDesde(_, _, _)
HeapifyDesde(nodos, heap, i) ==
    IF i < 0 THEN heap
    ELSE HeapifyDesde(nodos, SiftUp(nodos, heap, i), i - 1)

\* the heap left as the list of leaves, without heapq.heapify
HeapifySinOrdenar(nodos, heap) == heap

Heapify(nodos, heap) == HeapifyDesde(nodos, heap, (Len(heap) \div 2) - 1)

\* heapq.heappush
NodoHeapPush(nodos, heap, item) ==
    SiftDown(nodos, Append(heap, item), 0, Len(heap))

\* heapq.heappop: the item returned and the heap left
NodoHeapPop(nodos, heap) ==
    LET lastelt == heap[Len(heap)]
        resto == SubSeq(heap, 1, Len(heap) - 1)
    IN IF resto # <<>>
       THEN [item |-> resto[1], heap |-> SiftUp(nodos, Poner(resto, 0, lastelt), 0)]
       ELSE [item |-> lastelt, heap |-> resto]

\* heap = [NodoHuffman(char, freq) for char, freq in frecuencias.items()]
Hojas(frecs) ==
    [i \in DOMAIN frecs |-> NodoHuffman(frecs[i][1], frecs[i][2], Ninguno, Ninguno)]

\* construir_arbol_huffman up to the loop: None for an empty table, else
\* the leaves and the heapified heap.
HuffmanEntrada(frecs) ==
    IF frecs = <<>>
    THEN [pc |-> "retorno", nodos |-> <<>>, heap |-> <<>>, raiz |-> Ninguno]
    ELSE [pc |-> "bucle", nodos |-> Hojas(frecs),
          heap |-> Heapify(Hojas(frecs), [i \in DOMAIN frecs |-> i]),
          raiz |-> Ninguno]

\* the loop body giving the parent the frequency of its left child alone
HuffmanPasoSinSumar(f) ==
    LET p1 == NodoHeapPop(f.nodos, f.heap)
        izq == p1.item
        p2 == NodoHeapPop(f.nodos, p1.heap)
        der == p2.item
        nodos == Append(f.nodos,
                        NodoHuffman(Ninguno, f.nodos[izq].frecuencia, izq, der))
    IN [f EXCEPT !.nodos = nodos,
                 !.heap = NodoHeapPush(nodos, p2.heap, Len(nodos))]

\* one iteration of "while len(heap) > 1": the two least nodes are popped
\* and their parent is pushed
HuffmanPaso(f) ==
    LET p1 == NodoHeapPop(f.nodos, f.heap)
        izq == p1.item
        p2 == NodoHeapPop(f.nodos, p1.heap)
        der == p2.item
        nodos == Append(f.nodos,
                        NodoHuffman(Ninguno,
                                    f.nodos[izq].frecuencia + f.nodos[der].frecuencia,
                                    izq, der))
    IN [f EXCEPT !.nodos = nodos,
                 !.heap = NodoHeapPush(nodos, p2.heap, Len(nodos))]

HuffmanLlamar ==
    /\ hf.pc = "inicio"
    /\ hf' = HuffmanEntrada(frecuencias)
    /\ UNCHANGED <<varsMST, varsUF, varsDijkstra, frecuencias, codigos>>

HuffmanIterar ==
    /\ hf.pc = "bucle"
    /\ Len(hf.heap) > 1
    /\ hf' = HuffmanPaso(hf)
    /\ UNCHANGED <<varsMST, varsUF, varsDijkstra, frecuencias, codigos>>

\* return heap[0] if heap else None
HuffmanRetornar ==
    /\ hf.pc = "bucle"
    /\ ~(Len(hf.heap) > 1)
    /\ hf' = [hf EXCEPT !.pc = "retorno",
                        !.raiz = IF hf.heap # <<>> THEN En(hf.heap, 0) ELSE Ninguno]
    /\ UNCHANGED <<varsMST, varsUF, varsDijkstra, frecuencias, codigos>>

\* generar_codigos appending '0' on both sides
RECURSIVE GenerarCodigosMismoBit(_, _, _, _)
GenerarCodigosMismoBit(nodos, raiz, codigo, cods) ==
    IF raiz = Ninguno THEN cods
    ELSE IF EsHoja(nodos, raiz)
    THEN Asignar(cods, nodos[raiz].caracter, IF codigo # <<>> THEN codigo ELSE <<0>>)
    ELSE GenerarCodigosMismoBit(nodos, nodos[raiz].derecho, Append(codigo, 0),
             GenerarCodigosMismoBit(nodos, nodos[raiz].izquierdo,
                                    Append(codigo, 0), cods))

\* generar_codigos(raiz, codigo, codigos): a code is the sequence of its
\* bits; "0" for a leaf at the root.
RECURSIVE GenerarCodigos(_, _, _, _)
GenerarCodigos(nodos, raiz, codigo, cods) ==
    IF raiz = Ninguno THEN cods
    ELSE IF EsHoja(nodos, raiz)
    THEN Asignar(cods, nodos[raiz].caracter, IF codigo # <<>> THEN codigo ELSE <<0>>)
    ELSE GenerarCodigos(nodos, nodos[raiz].derecho, Append(codigo, 1),
             GenerarCodigos(nodos, nodos[raiz].izquierdo, Append(codigo, 0), cods))

\* codigos = generar_codigos(raiz) on the tree construir_arbol_huffman
\* returned
GenerarCodigosLlamar ==
    /\ hf.pc = "retorno"
    /\ codigos.pc = "inicio"
    /\ codigos' = [pc |-> "retorno",
                   codigos |-> GenerarCodigos(hf.nodos, hf.raiz, <<>>, <<>>)]
    /\ UNCHANGED <<varsMST, varsUF, varsDijkstra, frecuencias, hf>>

\* ejecutar_huffman: bits_comprimido = sum(len(codigos[char]) * freq for
\* char, freq in frecuencias.items())
BitsComprimido(frecs, cods) ==
    SumaSeq([i \in DOMAIN frecs |-> Len(cods[frecs[i][1]]) * frecs[i][2]])

\* --------------------------------------------- the huffman specification
\* The frequency tables: up to MaxSimbolos symbols, each with a positive
\* frequency, in every iteration order of the frequencies.  A symbol is only
\* ever used as a dict key, so the i-th key of a table is named i.
Tablas(n, F) ==
    UNION {{[i \in 1..k |-> <<i, fs[i]>>] : fs \in [1..k -> F]} : k \in 0..n}

TablasDeFrecuencias == Tablas(MaxSimbolos, 1..MaxFrecuencia)

InitHuffman ==
    /\ frecuencias \in TablasDeFrecuencias
    /\ hf = HuffmanInactivo
    /\ codigos = CodigosInactivo
    /\ aristas = <<>>
    /\ nodo_inicial = Ninguno
    /\ pr = PrimInactivo
    /\ kr = KruskalInactivo
    /\ padre = <<>>
    /\ rango = <<>>
    /\ ret = SinLlamada
    /\ unidos = {}
    /\ nodo_origen = Ninguno
    /\ dj = DijkstraInactivo
    /\ ruta = RutaInactiva

NextHuffman ==
    \/ HuffmanLlamar
    \/ HuffmanIterar
    \/ HuffmanRetornar
    \/ GenerarCodigosLlamar

SpecHuffman == InitHuffman /\ [][NextHuffman]_vars

\* ------------------------------------- all engines, one after the other
\* The engines are run in the order of ejecutar_todos: prim, kruskal,
\* dijkstra (with reconstruir_ruta), then construir_arbol_huffman and
\* generar_codigos; the graph engines get the same edge list.
TodosDijkstraLlamar ==
    /\ kr.pc = "retorno"
    /\ DijkstraLlamar

TodosHuffmanLlamar ==
    /\ ruta.pc = "retorno"
    /\ HuffmanLlamar

InitTodos ==
    /\ aristas \in SeqsUpTo(Arista, MaxAristasTodos)
    /\ nodo_inicial \in Nodos \cup {Ninguno}
    /\ nodo_origen \in Nodos
    /\ frecuencias \in Tablas(MaxSimbolosTodos, FrecuenciasTodos)
    /\ pr = PrimInactivo
    /\ kr = KruskalInactivo
    /\ padre = <<>>
    /\ rango = <<>>
    /\ ret = SinLlamada
    /\ unidos = {}
    /\ dj = DijkstraInactivo
    /\ ruta = RutaInactiva
    /\ hf = HuffmanInactivo
    /\ codigos = CodigosInactivo

NextTodos ==
    \/ PrimLlamar
    \/ PrimIterar
    \/ PrimRetornar
    \/ KruskalLlamar
    \/ KruskalIterar
    \/ KruskalRetornar
    \/ TodosDijkstraLlamar
    \/ DijkstraIterar
    \/ DijkstraRetornar
    \/ \E destino \in Nodos : ReconstruirRuta(destino)
    \/ TodosHuffmanLlamar
    \/ HuffmanIterar
    \/ HuffmanRetornar
    \/ GenerarCodigosLlamar

SpecTodos == InitTodos /\ [][NextTodos]_vars

\* ------------------------------------------------ reference definitions
\* The nodes reachable from S along the edges of the edge list as.
RECURSIVE Alcanza(_, _)
Alcanza(as, S) ==
    LET T == S \cup {as[i][2] : i \in {j \in DOMAIN as : as[j][1] \in S}}
               \cup {as[i][1] : i \in {j \in DOMAIN as : as[j][2] \in S}}
    IN IF T = S THEN S ELSE Alcanza(as, T)

\* es (a list of undirected edges) connects all the nodes of as: all of
\* them are reachable from the first one.
ConectaTodos(es, as) ==
    Alcanza(es, {as[1][1]}) = NodosDe(as)

\* as is non-empty and connected.
Conexo(as) == as # <<>> /\ ConectaTodos(as, as)

\* the edges of as at the positions I, as a list
RECURSIVE Seleccion(_, _)
Seleccion(as, I) ==
    IF I = {} THEN <<>>
    ELSE LET i == CHOOSE k \in I : \A m \in I : k <= m
         IN <<as[i]>> \o Seleccion(as, I \ {i})

PesoDe(es) == SumaSeq([i \in DOMAIN es |-> es[i][3]])

\* The sets of positions of as whose edges form a spanning tree of as.
ArbolesDeExpansion(as) ==
    {I \in SUBSET (DOMAIN as) :
        /\ Cardinality(I) = Cardinality(NodosDe(as)) - 1
        /\ ConectaTodos(Seleccion(as, I), as)}

\* every edge of es is an edge of as, in either direction
AristasDe(es, as) ==
    \A i \in DOMAIN es :
        \E j \in DOMAIN as :
            /\ es[i][3] = as[j][3]
            /\ {es[i][1], es[i][2]} = {as[j][1], as[j][2]}

\* A fresh UnionFind over the nodes of as never sees a failed unir while
\* the edges of es are united in order.
RECURSIVE SinUnionFallida(_, _, _)
SinUnionFallida(p, rg, es) ==
    IF es = <<>> THEN TRUE
    ELSE LET u == Unir(p, rg, Head(es)[1], Head(es)[2])
         IN u.ret /\ SinUnionFallida(u.padre, u.rango, Tail(es))

Aciclico(es, as) ==
    SinUnionFallida(UFPadreInicial(NodosDe(as)), UFRangoInicial(NodosDe(as)), es)

\* prim has just returned; kruskal has returned (prim ended before it)
PrimRetorno == pr.pc = "retorno" /\ kr.pc = "inicio"
KruskalRetorno == kr.pc = "retorno"
AmbosRetorno == pr.pc = "retorno" /\ kr.pc = "retorno"

\* ------------------------------------------------------------ claims: MST
\* C1: on a connected graph, prim (from any start node of the graph, or
\* from its default) and kruskal return the same total weight.
C1_MismoPesoTotal ==
    (AmbosRetorno /\ Conexo(aristas))
        => pr.peso_total = kr.peso_total

\* a connected triangle on which both engines have returned, with a positive
\* total and different accepted edges
C1_Testigo ==
    /\ AmbosRetorno /\ Conexo(aristas)
    /\ Len(aristas) = 3
    /\ Cardinality({{aristas[i][1], aristas[i][2]} : i \in 1..3}) = 3
    /\ \A i \in 1..3 : aristas[i][1] # aristas[i][2]
    /\ nodo_inicial = 3
    /\ pr.peso_total = 1 /\ kr.peso_total = 1
    /\ pr.mst_aristas # kr.mst_aristas

\* the number of edges a returned MST has to have: V - 1 when the graph is
\* connected, fewer when it is not
NumeroDeAristasCorrecto(es, as) ==
    IF Conexo(as) THEN Len(es) = Cardinality(NodosDe(as)) - 1
    ELSE Len(es) < Cardinality(NodosDe(as)) - 1

\* C2: on a non-empty edge list prim and kruskal return V - 1 edges when the
\* graph is connected and fewer when it is not, and the returned edges are
\* acyclic.
C2_NumeroDeAristasYAciclico ==
    /\ (PrimRetorno /\ aristas # <<>>) =>
          /\ NumeroDeAristasCorrecto(pr.mst_aristas, aristas)
          /\ Aciclico(pr.mst_aristas, aristas)
    /\ (KruskalRetorno /\ aristas # <<>>) =>
          /\ NumeroDeAristasCorrecto(kr.mst_aristas, aristas)
          /\ Aciclico(kr.mst_aristas, aristas)

\* both engines have returned on a disconnected graph, each with one edge
\* of three nodes
C2_Testigo ==
    /\ AmbosRetorno
    /\ aristas # <<>> /\ ~Conexo(aristas)
    /\ Cardinality(NodosDe(aristas)) = 3
    /\ Len(pr.mst_aristas) = 1 /\ Len(kr.mst_aristas) = 1

\* es, with the total reported for it, is a minimum spanning tree of as
EsArbolMinimo(es, total, as) ==
    /\ ConectaTodos(es, as)
    /\ AristasDe(es, as)
    /\ total = PesoDe(es)
    /\ \A I \in ArbolesDeExpansion(as) : total <= PesoDe(Seleccion(as, I))

\* C3: on a connected graph the edges returned by kruskal, and by prim,
\* connect all nodes and weigh no more than any spanning tree of the graph.
C3_ArbolMinimo ==
    /\ (KruskalRetorno /\ Conexo(aristas)) =>
          EsArbolMinimo(kr.mst_aristas, kr.peso_total, aristas)
    /\ (PrimRetorno /\ Conexo(aristas)) =>
          EsArbolMinimo(pr.mst_aristas, pr.peso_total, aristas)

\* a triangle with one heavy edge listed first: several spanning trees, of
\* different weights, and both engines returned the light one
C3_Testigo ==
    /\ AmbosRetorno /\ Conexo(aristas)
    /\ Len(aristas) = 3 /\ aristas[1][3] = 1
    /\ Cardinality(NodosDe(aristas)) = 3
    /\ Cardinality(ArbolesDeExpansion(aristas)) = 3
    /\ \E I \in ArbolesDeExpansion(aristas) : PesoDe(Seleccion(aristas, I)) = 1
    /\ kr.peso_total = 0 /\ pr.peso_total = 0

\* ------------------------------------------------------ claims: UnionFind
\* The elements connected to the elements of S by the pairs of R, taken in
\* both directions (the reflexive-transitive closure of R, from S).
RECURSIVE AlcanzaPares(_, _)
AlcanzaPares(R, S) ==
    LET T == S \cup {q[2] : q \in {r \in R : r[1] \in S}}
               \cup {q[1] : q \in {r \in R : r[2] \in S}}
    IN IF T = S THEN S ELSE AlcanzaPares(R, T)

\* what encontrar(n) returns for the parent mapping p
RaizDe(p, n) == Encontrar(p, n).raiz

\* the nodes on the parent chain of p from n up to its root
RECURSIVE Cadena(_, _)
Cadena(p, n) == IF p[n] = n THEN {n} ELSE {n} \cup Cadena(p, p[n])

\* C6: after any unir and encontrar calls, encontrar(a) = encontrar(b)
\* exactly when a and b are connected by the pairs passed to unir.
C6_MismaRaizSiiUnidos ==
    \A a, b \in DOMAIN padre :
        (RaizDe(padre, a) = RaizDe(padre, b)) <=> (b \in AlcanzaPares(unidos, {a}))

\* three pairs were united into two sets' worth of history, a chain of two
\* parent links exists, and the last call was an encontrar
C6_Testigo ==
    /\ Cardinality(unidos) = 3
    /\ ret.op = "encontrar"
    /\ \E n \in DOMAIN padre : padre[n] # n /\ padre[padre[n]] # padre[n]
    /\ \E a, b \in DOMAIN padre : RaizDe(padre, a) # RaizDe(padre, b)
    /\ \E a, b \in DOMAIN padre : a # b /\ RaizDe(padre, a) = RaizDe(padre, b)

\* the last call was unir(x, y) on two elements that were in the same set
UnirYaUnidos ==
    /\ ret.op = "unir"
    /\ RaizDe(ret.padre_antes, ret.x) = RaizDe(ret.padre_antes, ret.y)

\* C7 as stated: unir on two elements already in the same set returns False
\* and leaves padre and rango exactly as they were.
C7_UnirSinCambios ==
    UnirYaUnidos =>
        /\ ret.val = FALSE
        /\ padre = ret.padre_antes
        /\ rango = ret.rango_antes

\* C7 amended: such a call returns False and leaves rango and every
\* element's representative as they were; padre changes only by path
\* compression: an entry that changed belongs to the parent chain of x or
\* of y and now holds the root of that chain.
C7_UnirSoloComprime ==
    UnirYaUnidos =>
        /\ ret.val = FALSE
        /\ rango = ret.rango_antes
        /\ \A n \in DOMAIN padre : RaizDe(padre, n) = RaizDe(ret.padre_antes, n)
        /\ \A n \in DOMAIN padre :
              padre[n] # ret.padre_antes[n] =>
                 /\ n \in Cadena(ret.padre_antes, ret.x)
                             \cup Cadena(ret.padre_antes, ret.y)
                 /\ padre[n] = RaizDe(ret.padre_antes, n)

\* unir on two different elements of one set returned False and compressed
\* a path
C7_Testigo ==
    /\ UnirYaUnidos
    /\ ret.x # ret.y
    /\ ret.val = FALSE
    /\ padre # ret.padre_antes

\* ------------------------------------------------------- claims: dijkstra
\* the sequences of distinct nodes of as that lead from o to n along edges
CaminosSimples(as, o, n) ==
    {c \in UNION {[1..k -> NodosDe(as)] : k \in 1..Cardinality(NodosDe(as))} :
        /\ c[1] = o /\ c[Len(c)] = n
        /\ \A i, j \in DOMAIN c : i # j => c[i] # c[j]
        /\ \A i \in 1..(Len(c) - 1) :
              \E k \in DOMAIN as : {as[k][1], as[k][2]} = {c[i], c[i + 1]}}

Minimo(S) == CHOOSE m \in S : \A x \in S : m <= x

\* the lightest edge of as between u and v
AristaMasLigera(as, u, v) ==
    Minimo({as[k][3] : k \in {j \in DOMAIN as : {as[j][1], as[j][2]} = {u, v}}})

\* the weight of the path c, each step taking the lightest edge
PesoCamino(as, c) ==
    SumaSeq([i \in 1..(Len(c) - 1) |-> AristaMasLigera(as, c[i], c[i + 1])])

\* reference: the least weight of a path from o to n, Inf when there is none
DistanciaMinima(as, o, n) ==
    IF CaminosSimples(as, o, n) = {} THEN Inf
    ELSE Minimo({PesoCamino(as, c) : c \in CaminosSimples(as, o, n)})

DijkstraRetorno == dj.pc = "retorno"

\* C4: for a source of the graph dijkstra returns, for every node, the
\* least weight of a path from the source (0 for the source, infinity for
\* a node without path).
C4_DistanciasMinimas ==
    (DijkstraRetorno /\ nodo_origen \in NodosDe(aristas)) =>
        /\ DOMAIN dj.distancias = NodosDe(aristas)
        /\ \A n \in NodosDe(aristas) :
              dj.distancias[n] = DistanciaMinima(aristas, nodo_origen, n)

\* dijkstra returned on a graph where the direct edge from the source to a
\* node is heavier than the way round, which the predecessor records
C4_Testigo ==
    /\ DijkstraRetorno /\ nodo_origen \in NodosDe(aristas)
    /\ \E n \in NodosDe(aristas) :
          /\ n # nodo_origen
          /\ \E k \in DOMAIN aristas :
                /\ {aristas[k][1], aristas[k][2]} = {nodo_origen, n}
                /\ dj.distancias[n] < aristas[k][3]
          /\ dj.predecesores[n] # nodo_origen

\* the properties C5 asks of a returned path r to destino
RutaCorrecta(r, destino) ==
    /\ r[1] = nodo_origen
    /\ r[Len(r)] = destino
    /\ \A i \in DOMAIN r : r[i] \in DOMAIN dj.distancias
    /\ \A i \in 1..(Len(r) - 1) :
          /\ \E k \in DOMAIN aristas :
                {aristas[k][1], aristas[k][2]} = {r[i], r[i + 1]}
          /\ dj.distancias[r[i]] <= dj.distancias[r[i + 1]]
    /\ PesoCamino(aristas, r) = dj.distancias[destino]

\* C5 as stated: every non-empty path returned by reconstruir_ruta from the
\* predecessors of dijkstra starts at the source, ends at the target, uses
\* edges of the graph, has non-decreasing recorded distances and weighs the
\* recorded distance of the target.
C5_RutaCorrectaSiempre ==
    (ruta.pc = "retorno" /\ ruta.ruta # <<>>) =>
        RutaCorrecta(ruta.ruta, ruta.destino)

\* C5 amended: the same, for a source that is a node of the graph.
C5_RutaCorrecta ==
    (ruta.pc = "retorno" /\ ruta.ruta # <<>> /\ nodo_origen \in NodosDe(aristas)) =>
        RutaCorrecta(ruta.ruta, ruta.destino)

\* a path of three nodes was returned, of positive weight
C5_Testigo ==
    /\ ruta.pc = "retorno" /\ nodo_origen \in NodosDe(aristas)
    /\ Len(ruta.ruta) = 3
    /\ dj.distancias[ruta.destino] = 1

\* C10: dijkstra called with a source that is no endpoint of any edge
\* returns the empty distance and predecessor maps, and never initialises
\* distances or enters its loop.
C10_OrigenAusente ==
    (dj.pc # "inicio" /\ nodo_origen \notin NodosDe(aristas)) =>
        /\ dj.pc = "retorno"
        /\ dj.distancias = <<>>
        /\ dj.predecesores = <<>>
        /\ dj.visitados = {}
        /\ ~HeapNoVacio(dj.heap)

\* dijkstra returned for a source absent from a non-empty graph
C10_Testigo ==
    /\ DijkstraRetorno
    /\ aristas # <<>>
    /\ nodo_origen \notin NodosDe(aristas)
    /\ dj.distancias = <<>> /\ dj.predecesores = <<>>

\* -------------------------------------------------------- claims: huffman
\* a is a prefix of b (or equal to it)
EsPrefijo(a, b) == Len(a) <= Len(b) /\ SubSeq(b, 1, Len(a)) = a

SimbolosDe(frecs) == {frecs[i][1] : i \in DOMAIN frecs}

FrecuenciaDe(frecs, c) == frecs[CHOOSE i \in DOMAIN frecs : frecs[i][1] = c][2]

CodigosRetorno == codigos.pc = "retorno"

\* C8: for a non-empty table with positive frequencies the code table has
\* one code per symbol, each a non-empty string of bits, and no code is a
\* prefix of, or equal to, another.
C8_LibreDePrefijos ==
    (CodigosRetorno /\ frecuencias # <<>>) =>
        /\ DOMAIN codigos.codigos = SimbolosDe(frecuencias)
        /\ \A a, b \in DOMAIN codigos.codigos :
              a # b => ~EsPrefijo(codigos.codigos[a], codigos.codigos[b])
        /\ \A a \in DOMAIN codigos.codigos :
              /\ codigos.codigos[a] # <<>>
              /\ \A i \in DOMAIN codigos.codigos[a] : codigos.codigos[a][i] \in {0, 1}

\* codes were generated for four symbols, with lengths 1, 2, 3 and 3
C8_Testigo ==
    /\ CodigosRetorno
    /\ Len(frecuencias) = 4
    /\ {Len(codigos.codigos[a]) : a \in DOMAIN codigos.codigos} = {1, 2, 3}

\* C9: with at least two symbols, a symbol of strictly higher frequency
\* never has a longer code than a symbol of strictly lower frequency.
C9_MasFrecuenteNoMasLargo ==
    (CodigosRetorno /\ Len(frecuencias) >= 2) =>
        \A a, b \in SimbolosDe(frecuencias) :
            FrecuenciaDe(frecuencias, a) > FrecuenciaDe(frecuencias, b)
                => Len(codigos.codigos[a]) <= Len(codigos.codigos[b])

\* the table {A:5, B:3, C:1, D:1}: len(A) = 1, len(B) = 2, len(C) = len(D) = 3
C9_Testigo ==
    /\ CodigosRetorno
    /\ frecuencias = <<<<1, 5>>, <<2, 3>>, <<3, 1>>, <<4, 1>>>>
    /\ Len(codigos.codigos[1]) = 1
    /\ Len(codigos.codigos[2]) = 2
    /\ Len(codigos.codigos[3]) = 3
    /\ Len(codigos.codigos[4]) = 3

\* what C11 asks for the node n: without a path from the source, distance
\* infinity, no predecessor entry and an empty reconstructed path; with a
\* path, a finite distance, a predecessor entry and a non-empty path
RegistroDeAlcance(n) ==
    IF CaminosSimples(aristas, nodo_origen, n) = {}
    THEN /\ n \in DOMAIN dj.distancias
         /\ dj.distancias[n] = Inf
         /\ n \notin DOMAIN dj.predecesores
         /\ (ruta.pc = "retorno" /\ ruta.destino = n) => ruta.ruta = <<>>
    ELSE /\ n \in DOMAIN dj.distancias
         /\ dj.distancias[n] # Inf
         /\ n \in DOMAIN dj.predecesores
         /\ (ruta.pc = "retorno" /\ ruta.destino = n) => ruta.ruta # <<>>

\* C11 as stated: after dijkstra every node without a path from the source
\* has distance infinity, no predecessor and an empty reconstructed path,
\* and every other node but the source has a finite distance, a predecessor
\* and a non-empty reconstructed path.
C11_AlcanceSiempre ==
    DijkstraRetorno =>
        \A n \in NodosDe(aristas) \ {nodo_origen} : RegistroDeAlcance(n)

\* C11 amended: the same, for a source that is a node of the graph.
C11_Alcance ==
    (DijkstraRetorno /\ nodo_origen \in NodosDe(aristas)) =>
        \A n \in NodosDe(aristas) \ {nodo_origen} : RegistroDeAlcance(n)

\* the graph has a node reached from the source and a node that is not, and
\* reconstruir_ruta returned [] for the latter
C11_Testigo ==
    /\ DijkstraRetorno /\ nodo_origen \in NodosDe(aristas)
    /\ ruta.pc = "retorno" /\ ruta.ruta = <<>>
    /\ ruta.destino \in NodosDe(aristas)
    /\ dj.distancias[ruta.destino] = Inf
    /\ \E m \in DOMAIN dj.predecesores : dj.distancias[m] = 1

\* ---------------------------------------------- claims: prim, components
\* the node prim starts from: nodo_inicial, or the first key of grafo
NodoDePartida ==
    IF nodo_inicial = Ninguno THEN aristas[1][1] ELSE nodo_inicial

\* the connected component of the start node
ComponenteDePartida == Alcanza(aristas, {NodoDePartida})

\* C12: on a disconnected graph the edges prim returns have all their
\* endpoints in the component of the start node, connect that whole
\* component with (component size - 1) edges, and are fewer than V - 1.
C12_SoloLaComponente ==
    (PrimRetorno /\ aristas # <<>> /\ ~Conexo(aristas)) =>
        /\ NodosDe(pr.mst_aristas) \subseteq ComponenteDePartida
        /\ Alcanza(pr.mst_aristas, {NodoDePartida}) = ComponenteDePartida
        /\ Len(pr.mst_aristas) = Cardinality(ComponenteDePartida) - 1
        /\ Len(pr.mst_aristas) < Cardinality(NodosDe(aristas)) - 1

\* prim returned one edge on a graph of three nodes, started at the second
\* node of a component of two that has parallel edges
C12_Testigo ==
    /\ PrimRetorno /\ ~Conexo(aristas)
    /\ Len(aristas) = 3
    /\ Cardinality(NodosDe(aristas)) = 3
    /\ nodo_inicial # Ninguno /\ nodo_inicial # aristas[1][1]
    /\ Cardinality(ComponenteDePartida) = 2
    /\ Len(pr.mst_aristas) = 1

\* C13: no invocation of prim or kruskal ends in an unhandled failure; in
\* particular prim, called with a non-empty edge list and a start node that
\* is no endpoint of any edge, goes on to return a result.
C13_NuncaFalla ==
    /\ pr.pc \in {"inicio", "bucle", "retorno"}
    /\ kr.pc \in {"inicio", "bucle", "retorno"}

\* ------------------------------------------------- claims: empty input
\* C14: on zero edges prim and kruskal return ([], 0) and dijkstra returns
\* ({}, {}) for any source, on an empty frequency table
\* construir_arbol_huffman returns None and generar_codigos(None) returns {};
\* none of them builds anything or reaches its loop.
C14_EntradaVacia ==
    /\ (aristas = <<>> /\ pr.pc # "inicio") =>
          pr = [PrimInactivo EXCEPT !.pc = "retorno"]
    /\ (aristas = <<>> /\ kr.pc # "inicio") =>
          /\ kr = [KruskalInactivo EXCEPT !.pc = "retorno"]
          /\ ret = SinLlamada
    /\ (aristas = <<>> /\ dj.pc # "inicio") =>
          /\ dj.pc = "retorno"
          /\ dj.distancias = <<>> /\ dj.predecesores = <<>>
          /\ dj.visitados = {} /\ ~HeapNoVacio(dj.heap)
    /\ (frecuencias = <<>> /\ hf.pc # "inicio") =>
          hf = [HuffmanInactivo EXCEPT !.pc = "retorno"]
    /\ (frecuencias = <<>> /\ codigos.pc # "inicio") =>
          codigos = [CodigosInactivo EXCEPT !.pc = "retorno"]

\* every engine was run on its empty input and has returned
C14_Testigo ==
    /\ aristas = <<>> /\ frecuencias = <<>>
    /\ pr.pc = "retorno" /\ kr.pc = "retorno" /\ dj.pc = "retorno"
    /\ ruta.pc = "retorno"
    /\ hf.pc = "retorno" /\ hf.raiz = Ninguno
    /\ codigos.pc = "retorno" /\ codigos.codigos = <<>>

\* ------------------------------------------- claims: kruskal's edge order
\* es is a subsequence of as sorted stably by weight: its edges are edges of
\* as at distinct positions, taken in the order of (weight, position)
SubsecuenciaOrdenada(es, as) ==
    \E f \in [DOMAIN es -> DOMAIN as] :
        /\ \A j \in DOMAIN es : es[j] = as[f[j]]
        /\ \A j, k \in DOMAIN es :
              j < k => \/ as[f[j]][3] < as[f[k]][3]
                       \/ as[f[j]][3] = as[f[k]][3] /\ f[j] < f[k]

\* C15: the edges accepted by kruskal are a subsequence of the input sorted
\* stably by weight (non-decreasing weights, equal weights in input order),
\* and the total is the sum of their weights.
C15_OrdenDeAceptacion ==
    (kr.pc # "inicio") =>
        /\ SubsecuenciaOrdenada(kr.mst_aristas, aristas)
        /\ \A j \in 1..(Len(kr.mst_aristas) - 1) :
              kr.mst_aristas[j][3] <= kr.mst_aristas[j + 1][3]
        /\ kr.peso_total = PesoDe(kr.mst_aristas)

\* kruskal returned the second and third input edges, different edges of
\* one weight, after a heavier first edge was sorted behind them
C15_Testigo ==
    /\ KruskalRetorno
    /\ Len(aristas) = 3
    /\ aristas[1][3] = 1 /\ aristas[2][3] = 0 /\ aristas[3][3] = 0
    /\ aristas[2] # aristas[3]
    /\ kr.mst_aristas = <<aristas[2], aristas[3]>>

\* ------------------------------------------ claims: the huffman tree
\* the nodes of the subtree of n
RECURSIVE Subarbol(_, _)
Subarbol(nodos, n) ==
    IF n = Ninguno THEN {}
    ELSE {n} \cup Subarbol(nodos, nodos[n].izquierdo)
             \cup Subarbol(nodos, nodos[n].derecho)

\* the sum of the frequencies of the leaves below n, each counted as often
\* as it hangs there
RECURSIVE SumaDeHojas(_, _)
SumaDeHojas(nodos, n) ==
    IF n = Ninguno THEN 0
    ELSE IF EsHoja(nodos, n) THEN nodos[n].frecuencia
    ELSE SumaDeHojas(nodos, nodos[n].izquierdo)
            + SumaDeHojas(nodos, nodos[n].derecho)

\* n is a leaf with a symbol, or an internal node without symbol and with
\* two children whose subtrees share no node
NodoBienFormado(nodos, n) ==
    \/ /\ nodos[n].caracter # Ninguno
       /\ nodos[n].izquierdo = Ninguno /\ nodos[n].derecho = Ninguno
    \/ /\ nodos[n].caracter = Ninguno
       /\ nodos[n].izquierdo # Ninguno /\ nodos[n].derecho # Ninguno
       /\ Subarbol(nodos, nodos[n].izquierdo)
             \cap Subarbol(nodos, nodos[n].derecho) = {}

\* the nodes construir_arbol_huffman holds: those of its heap, then its root
NodosEnMano ==
    IF hf.pc = "retorno" THEN {hf.raiz} \ {Ninguno}
    ELSE {hf.heap[i] : i \in DOMAIN hf.heap}

\* C16: at every step of construir_arbol_huffman and in its result every
\* node reachable from the heap is a leaf with a symbol and no children or
\* an internal node with no symbol and two children, weighs the sum of the
\* leaves below it, and belongs to one subtree only; the root weighs the sum
\* of all input frequencies.
C16_ArbolBienFormado ==
    /\ \A n \in NodosEnMano :
          \A m \in Subarbol(hf.nodos, n) :
              /\ NodoBienFormado(hf.nodos, m)
              /\ hf.nodos[m].frecuencia = SumaDeHojas(hf.nodos, m)
    /\ \A i, j \in DOMAIN hf.heap :
          i # j => Subarbol(hf.nodos, hf.heap[i])
                      \cap Subarbol(hf.nodos, hf.heap[j]) = {}
    /\ (hf.pc = "retorno" /\ frecuencias # <<>>) =>
          hf.nodos[hf.raiz].frecuencia
              = SumaSeq([i \in DOMAIN frecuencias |-> frecuencias[i][2]])

\* in the loop, on five symbols: the heap holds two internal nodes
C16_Testigo ==
    /\ hf.pc = "bucle"
    /\ Len(frecuencias) = 5
    /\ Len(hf.heap) = 2
    /\ \A i \in DOMAIN hf.heap : ~EsHoja(hf.nodos, hf.heap[i])

\* ------------------------------------- claims: the compressed bit count
\* the bag of the frequencies of a table: what is left of the table when
\* its iteration order and its symbols are forgotten
RECURSIVE BolsaDeFrecuencias(_)
BolsaDeFrecuencias(frecs) ==
    IF frecs = <<>> THEN EmptyBag
    ELSE SetToBag({Head(frecs)[2]}) (+) BolsaDeFrecuencias(Tail(frecs))

\* reference: the weighted code length of an optimal tree for the bag B of
\* two or more frequencies, by joining its two least members until one is
\* left
RECURSIVE CosteOptimo(_)
CosteOptimo(B) ==
    IF BagCardinality(B) <= 1 THEN 0
    ELSE LET a == Minimo(BagToSet(B))
             B1 == B (-) SetToBag({a})
             b == Minimo(BagToSet(B1))
             B2 == B1 (-) SetToBag({b})
         IN (a + b) + CosteOptimo(B2 (+) SetToBag({a + b}))

\* reference: the compressed bit count of a table, from its bag alone; one
\* symbol takes one bit per occurrence
BitsDeReferencia(B) ==
    IF BagCardinality(B) = 1 THEN Minimo(BagToSet(B)) ELSE CosteOptimo(B)

\* C17: the compressed bit count sum(len(code[s]) * freq[s]) is a function
\* of the bag of frequencies alone, so it is the same for every iteration
\* order of a table and every tie-break among equal frequencies.
C17_BitsIndependientesDelOrden ==
    (CodigosRetorno /\ frecuencias # <<>>) =>
        BitsComprimido(frecuencias, codigos.codigos)
            = BitsDeReferencia(BolsaDeFrecuencias(frecuencias))

\* codes were generated for a table in which two symbols of one frequency
\* got codes of different lengths, and which is not in ascending order
C17_Testigo ==
    /\ CodigosRetorno
    /\ Len(frecuencias) >= 4
    /\ \E i, j \in DOMAIN frecuencias :
          /\ frecuencias[i][2] = frecuencias[j][2]
          /\ Len(codigos.codigos[i]) # Len(codigos.codigos[j])
    /\ \E i \in 1..(Len(frecuencias) - 1) :
          frecuencias[i][2] > frecuencias[i + 1][2]

\* --------------------------------------- claims: UnionFind.encontrar
\* the node reached from n after k steps along the parent mapping p
RECURSIVE Subir(_, _, _)
Subir(p, n, k) == IF k = 0 THEN n ELSE Subir(p, p[n], k - 1)

\* p has no cycle but the self-parented roots: from every node a root is
\* reached within as many steps as there are nodes
SinCiclos(p) ==
    \A n \in DOMAIN p :
        LET r == Subir(p, n, Cardinality(DOMAIN p))
        IN p[r] = r

\* C18: the parent mapping never has a cycle other than the self-parented
\* roots; after encontrar(x) returned r, r is the root x had, every node
\* that was on the parent chain of x has parent r, every other parent entry
\* and every rank is as before, and two elements are in one set exactly when
\* they were before.
C18_EncontrarComprime ==
    /\ SinCiclos(padre)
    /\ (ret.op = "encontrar") =>
          /\ ret.val = Subir(ret.padre_antes, ret.x, Cardinality(DOMAIN padre))
          /\ \A n \in DOMAIN padre :
                padre[n] = IF n \in Cadena(ret.padre_antes, ret.x)
                           THEN ret.val ELSE ret.padre_antes[n]
          /\ rango = ret.rango_antes
          /\ \A a, b \in DOMAIN padre :
                (RaizDe(padre, a) = RaizDe(padre, b))
                    <=> (RaizDe(ret.padre_antes, a) = RaizDe(ret.padre_antes, b))

\* encontrar was called on the end of a chain of two parent links and
\* shortened it, in a UnionFind of more than one set
C18_Testigo ==
    /\ ret.op = "encontrar"
    /\ Cardinality(Cadena(ret.padre_antes, ret.x)) = 3
    /\ padre # ret.padre_antes
    /\ padre[ret.x] = ret.val
    /\ \E a \in DOMAIN padre : RaizDe(padre, a) # ret.val

\* ------------------------------------- claims: the dijkstra loop
\* the number of heappop calls made so far: every item pushed is in the
\* heap or was popped
Extracciones(f) == f.empujes - BagCardinality(f.heap)

\* the entry of n in the dict d, Ninguno when it has none
Entrada(d, n) == IF n \in DOMAIN d THEN d[n] ELSE Ninguno

\* what C19 asks of one iteration of the loop: the item popped is counted;
\* a node finalized by it was popped with the distance recorded for it,
\* which is no less than that of any node finalized before; and the
\* entries of the finalized nodes are left alone
IteracionOrdenada ==
    (dj.pc = "bucle" /\ dj'.pc = "bucle") =>
        /\ Extracciones(dj') = Extracciones(dj) + 1
        /\ \A n \in dj'.visitados \ dj.visitados :
              /\ HeapMin(dj.heap) = <<dj.distancias[n], n>>
              /\ \A v \in dj.visitados : dj.distancias[v] <= dj.distancias[n]
        /\ \A v \in dj'.visitados :
              /\ dj'.distancias[v] = dj.distancias[v]
              /\ Entrada(dj'.predecesores, v) = Entrada(dj.predecesores, v)

\* in every state of the loop: no more pushes than one per edge direction
\* plus one, the loop is left with an empty heap only, and the result is
\* what the loop left
EmpujesAcotados ==
    /\ dj.empujes <= 2 * Len(aristas) + 1
    /\ Extracciones(dj) >= 0
    /\ dj.pc = "retorno" => ~HeapNoVacio(dj.heap)

\* C19: with non-negative weights the loop of dijkstra finalizes nodes in
\* non-decreasing order of popped distance, a node is finalized with the
\* distance recorded for it, its distance and predecessor never change
\* afterwards, and the loop ends with an empty heap after at most one push
\* per edge direction plus one (every iteration pops one pushed item).
C19_BucleOrdenado ==
    /\ []EmpujesAcotados
    /\ [][IteracionOrdenada]_vars

\* dijkstra returned after four pushes and four pops for three nodes: one
\* node was pushed twice and its stale entry was skipped
C19_Testigo ==
    /\ DijkstraRetorno
    /\ Cardinality(dj.visitados) = 3
    /\ dj.empujes = 4

====
